---- MODULE Spec2Model ----
(***************************************************************************)
(* Type-Scribe AI backend (backend/app/main.py): the /generate-sdk request *)
(* handler, its Graphlit helpers and the usage-example stage, as a state   *)
(* machine.  Handlers are asyncio coroutines: the code between two awaits  *)
(* on real I/O runs atomically, so there is one action per awaited         *)
(* external call, each including the code that follows it up to the next   *)
(* await.  Texts the code inspects character by character (generated code, *)
(* file names) are sequences of one-character strings; texts the code only *)
(* copies (messages, MIME types, upstream error strings) are tokens.       *)
(***************************************************************************)
EXTENDS Integers, Sequences, FiniteSets, TLC

\* ------------------------------------------------------------------ bounds
\* Number of /generate-sdk requests the deployment serves concurrently.
NReq == 2

Req == 1..NReq

\* ------------------------------------------------------------- Python values
\* None where a token (a copied text) is expected.
None == "None"
\* None where a character sequence is expected (distinct from every text).
NoneText == <<"<None>">>

\* Python truthiness of an optional character sequence.
Truthy(s) == s # NoneText /\ s # <<>>

\* needle in hay (str.__contains__).
Contains(needle, hay) ==
    \E i \in 0..(Len(hay) - Len(needle)) :
        \A j \in 1..Len(needle) : hay[i + j] = needle[j]

\* str.endswith
EndsWith(s, suf) ==
    /\ Len(suf) <= Len(s)
    /\ \A j \in 1..Len(suf) : s[Len(s) - Len(suf) + j] = suf[j]

UpperChars == <<"A", "B", "C", "D", "E", "F", "G", "H", "I", "J", "K", "L", "M",
                "N", "O", "P", "Q", "R", "S", "T", "U", "V", "W", "X", "Y", "Z">>
LowerChars == <<"a", "b", "c", "d", "e", "f", "g", "h", "i", "j", "k", "l", "m",
                "n", "o", "p", "q", "r", "s", "t", "u", "v", "w", "x", "y", "z">>

LowerChar(c) ==
    IF \E i \in 1..26 : UpperChars[i] = c
    THEN LowerChars[CHOOSE i \in 1..26 : UpperChars[i] = c]
    ELSE c

\* str.lower
Lower(s) == [i \in 1..Len(s) |-> LowerChar(s[i])]

WhiteChars == {" ", "\n", "\t"}

\* str.strip: drop leading and trailing whitespace.
Strip(s) ==
    LET idx == {i \in 1..Len(s) : s[i] \notin WhiteChars}
    IN  IF idx = {} THEN <<>>
        ELSE LET lo == CHOOSE i \in idx : \A k \in idx : i <= k
                 hi == CHOOSE i \in idx : \A k \in idx : i >= k
             IN  SubSeq(s, lo, hi)


\* ------------------------------------------------ texts used by the program
\* The keywords of the plausibility check (main.py:603).
Keywords ==
    { <<"i", "n", "t", "e", "r", "f", "a", "c", "e">>,
      <<"c", "l", "a", "s", "s">>,
      <<"a", "s", "y", "n", "c">>,
      <<"f", "e", "t", "c", "h">> }

\* The fallback text of the usage-example stage (main.py:333).
UsagePlaceholder ==
    <<"E", "r", "r", "o", "r", " ", "g", "e", "n", "e", "r", "a", "t", "i", "n", "g", " ", "u", "s", "a", "g", "e", " ", "e", "x", "a", "m", "p", "l", "e", ".">>

\* Fixed detail messages (main.py:112, 495, 211, 217, 254, 569, 610, 636).
MsgNoDoc == "No API documentation provided. Please provide either a URL for the documentation or upload a file."
MsgNotInit == "Graphlit client not initialized. Check backend logs for errors related to GRAPHLIT_ environment variables."
MsgNoSource == "Either doc_url or uploaded file content is required for ingestion."
MsgNoContentId == "Graphlit ingestion failed to return a content ID."
MsgNoMarkdown == "Failed to retrieve markdown content from Graphlit. Content might not be processed yet, or is empty."
MsgBlank == "Retrieved empty or invalid documentation content from Graphlit. Ensure the document contains readable text."
MsgInvalidSdk == "SDK generation failed or returned invalid TypeScript code. This might indicate issues with the API documentation or the LLM's understanding/generation capabilities. Check backend logs for more details."
MsgUnexpected == "An unexpected internal server error occurred: "
MsgSuccess == "TypeScript SDK generated successfully! SDK Name: "

PreWorkflowApi == "Graphlit API error during workflow creation: "
PreWorkflowOther == "Backend error during Graphlit workflow setup: "
PreIngestApi == "Graphlit API error during ingestion: "
PreIngestOther == "Backend error during ingestion: "
PreContentApi == "Graphlit API error retrieving content: "
PreContentOther == "Backend error retrieving content: "

\* str() of the exceptions Python itself raises in the handler.
StrAttributeError == "'GraphQLClientError' object has no attribute 'errors'"
StrNoneSubscript == "'NoneType' object is not subscriptable"

\* ------------------------------------------------------- MIME resolution
OctetStream == "application/octet-stream"
MimeMarkdown == "text/markdown"
MimePlain == "text/plain"
MimePdf == "application/pdf"
MimeDocx == "application/vnd.openxmlformats-officedocument.wordprocessingml.document"
MimePptx == "application/vnd.openxmlformats-officedocument.presentationml.presentation"

ExtMd == <<".", "m", "d">>
ExtTxt == <<".", "t", "x", "t">>
ExtPdf == <<".", "p", "d", "f">>
ExtDocx == <<".", "d", "o", "c", "x">>
ExtPptx == <<".", "p", "p", "t", "x">>
ExtBak == <<".", "b", "a", "k">>

\* posixpath.splitext on a name without directory part: the suffix from the
\* last dot, unless only dots precede it.
SplitExt(name) ==
    LET dots == {i \in 1..Len(name) : name[i] = "."}
    IN  IF dots = {} THEN <<>>
        ELSE LET d == CHOOSE i \in dots : \A k \in dots : i >= k
             IN  IF \E i \in 1..(d - 1) : name[i] # "."
                 THEN SubSeq(name, d, Len(name))
                 ELSE <<>>

\* mimetypes.guess_type(name)[0] against the interpreter's type table tm (a
\* function from extensions to types): exact extension first, then lower-cased.
GuessType(name, tm) ==
    LET ext == SplitExt(name)
    IN  IF ext \in DOMAIN tm THEN tm[ext]
        ELSE IF Lower(ext) \in DOMAIN tm THEN tm[Lower(ext)]
        ELSE None

\* The fixed table of the handler on the lower-cased file name (main.py:528-544).
TableType(name) ==
    IF EndsWith(Lower(name), ExtMd) THEN MimeMarkdown
    ELSE IF EndsWith(Lower(name), ExtTxt) THEN MimePlain
    ELSE IF EndsWith(Lower(name), ExtPdf) THEN MimePdf
    ELSE IF EndsWith(Lower(name), ExtDocx) THEN MimeDocx
    ELSE IF EndsWith(Lower(name), ExtPptx) THEN MimePptx
    ELSE OctetStream

\* A variant that compares the suffix without lower-casing the name.
ResolveMimeCaseSensitive(content_type, name, tm) ==
    IF content_type = OctetStream \/ content_type = None \/ content_type = ""
    THEN IF GuessType(name, tm) # None /\ GuessType(name, tm) # ""
         THEN GuessType(name, tm)
         ELSE IF EndsWith(name, ExtMd) THEN MimeMarkdown
         ELSE IF EndsWith(name, ExtTxt) THEN MimePlain
         ELSE IF EndsWith(name, ExtPdf) THEN MimePdf
         ELSE IF EndsWith(name, ExtDocx) THEN MimeDocx
         ELSE IF EndsWith(name, ExtPptx) THEN MimePptx
         ELSE OctetStream
    ELSE content_type

\* determined_mime_type after the inference block (main.py:512-545).
ResolveMime(content_type, name, tm) ==
    IF content_type = OctetStream \/ content_type = None \/ content_type = ""
    THEN IF GuessType(name, tm) # None /\ GuessType(name, tm) # ""
         THEN GuessType(name, tm)
         ELSE TableType(name)
    ELSE content_type

\* Type tables an interpreter may hold (built-in table plus the host's
\* mime.types files): none of the documentation types, some, or all.
TypesBare == (ExtBak :> "application/x-trash")
TypesSome == (ExtPdf :> MimePdf) @@ (ExtTxt :> MimePlain) @@ TypesBare
TypesFull == (ExtMd :> MimeMarkdown) @@ (ExtDocx :> MimeDocx) @@ (ExtPptx :> MimePptx) @@ TypesSome
TypeTables == {TypesBare, TypesSome, TypesFull}


\* ------------------------------------------------------------------ inputs
SdkNames == {"MyApiSdk", "PetStore"}

DocUrl == <<"h", "t", "t", "p", "s", ":", "/", "/", "x">>
\* doc_url as the form layer may deliver it: absent, empty or a URL.
DocUrls == {NoneText, <<>>, DocUrl}

NoFile == [present |-> FALSE, filename |-> NoneText, content_type |-> None, content |-> <<>>]
Upload(name, ctype, bytes) ==
    [present |-> TRUE, filename |-> name, content_type |-> ctype, content |-> bytes]

FileSpecMd == <<"s", "p", "e", "c", ".", "m", "d">>
FileSpecPdf == <<"s", "p", "e", "c", ".", "p", "d", "f">>
FileUpperMd == <<"S", "P", "E", "C", ".", "M", "D">>
FileNotes == <<"n", "o", "t", "e", "s", ".", "t", "x", "t">>
FileDocx == <<"a", ".", "d", "o", "c", "x">>
FilePptx == <<"a", ".", "p", "p", "t", "x">>
FileBin == <<"d", "a", "t", "a", ".", "b", "i", "n">>
FileReadme == <<"R", "E", "A", "D", "M", "E">>
FileDotMd == <<".", "m", "d">>
FileBak == <<"x", ".", "m", "d", ".", "b", "a", "k">>

SomeBytes == <<"#">>

\* Uploads: every name with every declared type, with and without content.
FileNames ==
    { FileSpecMd, FileSpecPdf, FileUpperMd, FileNotes, FileDocx, FilePptx,
      FileBin, FileReadme, FileDotMd, FileBak, <<>> }
ContentTypes == {None, "", OctetStream, "text/html"}
AllUploads ==
    { Upload(n, c, b) : n \in FileNames, c \in ContentTypes, b \in {<<>>, SomeBytes} }

\* ------------------------------------------------- the external services
\* Exceptions a Graphlit call may raise: a GraphQL client error carrying an
\* errors list, a GraphQL client error without one, any other exception.
ErrMulti == [cls |-> "GraphQLClientError", has_errors |-> TRUE,
             errors |-> "[{'message': 'quota exceeded'}]", msg |-> "GraphQL multi error"]
ErrHttp == [cls |-> "GraphQLClientError", has_errors |-> FALSE,
            errors |-> None, msg |-> "HTTP status code: 503"]
ErrOther == [cls |-> "Exception", has_errors |-> FALSE,
             errors |-> None, msg |-> "connection refused"]
NoExc == [cls |-> None, has_errors |-> FALSE, errors |-> None, msg |-> None]
ServiceErrors == {ErrMulti, ErrHttp, ErrOther}

\* Exceptions a model run may raise.
ErrModel == [cls |-> "Exception", has_errors |-> FALSE,
             errors |-> None, msg |-> "model quota exhausted"]

WorkflowId(n) == <<"workflow", n>>
ContentId(r) == <<"content", r>>

\* What ingest_uri / ingest_encoded_file may answer instead of an id: None or "".
MissingIds == {NoneText, <<>>}

\* What get_content may answer: no details, details without content, or a
\* content whose markdown is None, empty, blank or a text.
MarkdownText == <<"G", "E", "T", " ", "/", "p", "e", "t", "s">>
MarkdownBlank == <<" ", "\n">>
ContentAnswers ==
    { [details |-> FALSE, content |-> FALSE, markdown |-> NoneText],
      [details |-> TRUE, content |-> FALSE, markdown |-> NoneText],
      [details |-> TRUE, content |-> TRUE, markdown |-> NoneText],
      [details |-> TRUE, content |-> TRUE, markdown |-> <<>>],
      [details |-> TRUE, content |-> TRUE, markdown |-> MarkdownBlank],
      [details |-> TRUE, content |-> TRUE, markdown |-> MarkdownText] }

NoAnswer == [details |-> FALSE, content |-> FALSE, markdown |-> NoneText]

\* What the orchestration team may return as team_result.content.
TeamPlausible == <<"c", "l", "a", "s", "s", " ", "A">>
TeamImplausible == <<"c", "l", "a", "s">>
TeamOutputs ==
    { NoneText,
      <<>>,
      TeamPlausible,
      <<"x", "=", "f", "e", "t", "c", "h", "(", ")">>,
      <<"C", "l", "a", "s", "s">>,
      TeamImplausible }

\* What the usage agent may return as response.content.
UsageText == <<" ", "m", "a", "i", "n", "(", ")", "\n">>
UsageOutputs == {NoneText, <<>>, UsageText}


\* ------------------------------------------------------------------- state
VARIABLES
    lifespan,     \* "on": the server runs the startup hook before serving; "off": it does not
    phase,        \* "boot", "serving" or "failed" (startup raised, the process exits)
    handle,       \* graphlit_client_instance: None, "no_client" (no inner .client) or "client"
    types_map,    \* the interpreter's mimetypes table
    workflows,    \* the ingestion service: ids of the workflows named ApiDocTextExtractionWorkflow
    req,          \* per request: position, arguments, locals, calls made, response
    wfPred,       \* per request: the requests whose provisioner had returned when its own started
    raced         \* the requests whose provisioner call overlapped another one

vars == <<lifespan, phase, handle, types_map, workflows, req, wfPred, raced>>

\* ----------------------------------------------------------------- responses
NoResp == [status |-> 0, detail |-> <<>>, sdk_code |-> NoneText,
           sdk_usage_example |-> NoneText, message |-> <<>>]

\* raise HTTPException(status_code, detail): detail as the parts it is built from.
HTTPError(status, parts) ==
    [status |-> status, detail |-> parts, sdk_code |-> NoneText,
     sdk_usage_example |-> NoneText, message |-> <<>>]

\* GenerateSdkResponse (main.py:622-626), served with status 200.
Success(code, example, name) ==
    [status |-> 200, detail |-> <<>>, sdk_code |-> code,
     sdk_usage_example |-> example, message |-> <<MsgSuccess, name>>]

\* str(HTTPException(status, detail)) is "<status>: <detail>".
StatusText(status) == IF status = 400 THEN "400: " ELSE "500: "

\* The handler's last except clause (main.py:630-637).
Unexpected(text) ==
    HTTPError(500, <<MsgUnexpected, text, ". Please check backend logs for more details.">>)

\* The except clauses of get_or_create_graphlit_workflow (main.py:155-168).
\* e.errors is read unguarded: on a client error without that attribute the
\* clause itself raises AttributeError, which leaves the provisioner and
\* ingest_document_with_graphlit (the call at line 182 is outside its try)
\* and reaches the handler's last except clause.
WorkflowExcept(e) ==
    IF e.cls = "GraphQLClientError"
    THEN IF e.has_errors
         THEN HTTPError(500, <<PreWorkflowApi, e.errors>>)
         ELSE Unexpected(StrAttributeError)
    ELSE HTTPError(500, <<PreWorkflowOther, e.msg>>)

\* The except clauses of ingest_document_with_graphlit (main.py:224-237).
IngestExcept(e) ==
    IF e.cls = "GraphQLClientError"
    THEN HTTPError(500, <<PreIngestApi, IF e.has_errors THEN e.errors ELSE e.msg>>)
    ELSE HTTPError(500, <<PreIngestOther, e.msg>>)

\* A variant that lets the HTTPException through as it was raised.
IngestRewrapKeepStatus(status, text) == HTTPError(status, <<text>>)

\* An HTTPException raised inside the try of ingest_document_with_graphlit
\* (main.py:209, 215) is caught by its "except Exception" (main.py:233-237).
IngestRewrap(status, text) ==
    HTTPError(500, <<PreIngestOther, StatusText(status), text>>)

\* The except clauses of get_content_markdown_from_graphlit (main.py:257-269).
ContentExcept(e) ==
    IF e.cls = "GraphQLClientError"
    THEN HTTPError(500, <<PreContentApi, IF e.has_errors THEN e.errors ELSE e.msg>>)
    ELSE HTTPError(500, <<PreContentOther, e.msg>>)

\* The HTTPException of main.py:252 caught by "except Exception" (main.py:265-269).
ContentRewrap(status, text) ==
    HTTPError(500, <<PreContentOther, StatusText(status), text>>)

\* ------------------------------------------------------------------ helpers
Call(op, name, mime) == [op |-> op, name |-> name, mime |-> mime]

IdleReq ==
    [pc |-> "idle", sdk_name |-> None, doc_url |-> NoneText, doc_file |-> NoFile,
     file_content |-> NoneText, mime |-> None, results |-> <<>>, workflow_id |-> NoneText,
     content_id |-> NoneText, raw_doc_content |-> NoneText, sdk_code |-> NoneText,
     usage_content |-> NoneText, exc |-> NoExc,
     ingest_answer |-> NoneText, content_answer |-> NoAnswer,
     calls |-> <<>>, resp |-> NoResp]

\* The request ends with response resp.
Finish(rec, resp) == [rec EXCEPT !.pc = "done", !.resp = resp]

InProvisioner(q) == req[q].pc \in {"query", "create"}

\* Bookkeeping when request r enters get_or_create_graphlit_workflow.
EnterProvisioner(r) ==
    /\ wfPred' = [wfPred EXCEPT ![r] = {q \in Req : Truthy(req[q].workflow_id)}]
    /\ raced' = IF \E q \in Req \ {r} : InProvisioner(q)
                THEN raced \cup {r} \cup {q \in Req : InProvisioner(q)}
                ELSE raced

\* The plausibility check of the generated code (main.py:602-604), negated.
LooksLikeTypeScript(code) ==
    Truthy(code) /\ \E kw \in Keywords : Contains(kw, code)


\* --------------------------------------------------- decisions of the code
\* A variant that looks the client up before validating the arguments.
AdmitClientFirst(h, doc_url, doc_file) ==
    IF h = None \/ h = "no_client" THEN "no_client"
    ELSE IF ~Truthy(doc_url) /\ ~doc_file.present THEN "no_doc"
    ELSE "go"

\* A variant that hands out the handle without testing it.
AdmitAnyHandle(h, doc_url, doc_file) ==
    IF ~Truthy(doc_url) /\ ~doc_file.present THEN "no_doc"
    ELSE "go"

\* The handler up to its try block (main.py:492-498, 104-114): validation
\* first, then get_graphlit_client.
Admit(h, doc_url, doc_file) ==
    IF ~Truthy(doc_url) /\ ~doc_file.present THEN "no_doc"
    ELSE IF h = None \/ h = "no_client" THEN "no_client"
    ELSE "go"

\* A variant that prefers the uploaded file.
SourceOfFileFirst(doc_url, doc_file) ==
    IF doc_file.present THEN "file"
    ELSE IF Truthy(doc_url) THEN "url"
    ELSE "none"

\* Which branch of step 1 runs (main.py:503, 508).
SourceOf(doc_url, doc_file) ==
    IF Truthy(doc_url) THEN "url"
    ELSE IF doc_file.present THEN "file"
    ELSE "none"

\* A variant that never reuses a listed workflow.
ProvisionerFoundNever(results) == FALSE

\* The lookup test of the provisioner (main.py:126).
ProvisionerFound(results) == results # <<>>

\* A variant that only rejects an absent id.
IngestOutcomeNoneOnly(id) == IF id # NoneText THEN "ok" ELSE "no_id"

\* What ingestion makes of the id the service answered (main.py:214-223).
IngestOutcome(id) == IF Truthy(id) THEN "ok" ELSE "no_id"

\* A variant that takes any non-blank answer, absent markdown included.
ContentOutcomeLax(a) ==
    IF Strip(a.markdown) = <<>> THEN "blank"
    ELSE "ok"

\* What retrieval makes of the service's answer (main.py:246-256, 566).
ContentOutcome(a) ==
    IF ~a.details \/ ~a.content \/ ~Truthy(a.markdown) THEN "missing"
    ELSE IF Strip(a.markdown) = <<>> THEN "blank"
    ELSE "ok"

\* A variant that only rejects empty output.
TeamOutcomeNoKeywords(c) ==
    IF ~Truthy(c)
    THEN IF c = NoneText THEN "none" ELSE "invalid"
    ELSE "ok"

\* A variant that logs implausible output and goes on.
TeamOutcomeWarnOnly(c) ==
    IF c = NoneText THEN "none" ELSE "ok"

\* What the handler makes of team_result.content (main.py:598-611): when the
\* check fails, the log line slices the content first, which raises
\* TypeError on None.
TeamOutcome(c) ==
    IF ~LooksLikeTypeScript(c)
    THEN IF c = NoneText THEN "none" ELSE "invalid"
    ELSE "ok"

\* A variant whose failure path returns an empty example.
UsageExampleEmptyOnError(raised, content) ==
    IF raised \/ content = NoneText THEN <<>>
    ELSE Strip(content)

\* generate_sdk_usage_example (main.py:273-333): the stripped content, or the
\* placeholder when the run raises or the content is None (None.strip()
\* raises AttributeError inside the try).
UsageExample(raised, content) ==
    IF raised \/ content = NoneText THEN UsagePlaceholder
    ELSE Strip(content)

\* ingest_document_with_graphlit after the provisioner returned wid
\* (main.py:184-212): await the ingestion call, or raise for a missing source.
AfterWorkflow(rec, wid) ==
    LET got == [rec EXCEPT !.workflow_id = wid]
        src == SourceOf(rec.doc_url, rec.doc_file)
    IN  IF src = "url" \/ (src = "file" /\ Truthy(rec.file_content))
        THEN [got EXCEPT !.pc = "ingest"]
        ELSE Finish(got, IngestRewrap(400, MsgNoSource))


\* ------------------------------------------------------------------ actions
\* startup_event (main.py:55-77): binds the global handle, or raises and the
\* process exits with the handle still None.
Startup ==
    /\ lifespan = "on"
    /\ phase = "boot"
    /\ \/ /\ \E h \in {"client", "no_client"} : handle' = h
          /\ phase' = "serving"
       \/ /\ handle' = handle
          /\ phase' = "failed"
    /\ UNCHANGED <<lifespan, types_map, workflows, req, wfPred, raced>>

Serving == phase = "serving" \/ (lifespan = "off" /\ phase = "boot")

\* generate_sdk_endpoint up to its first await on I/O (main.py:492-510):
\* validation, client lookup, and the choice of the document source.
Receive(r, d) ==
    /\ Serving
    /\ req[r].pc = "idle"
    /\ \E name \in d.names, src_in \in d.sources :
        LET url == src_in[1]
            f == src_in[2]
            rec == [req[r] EXCEPT !.sdk_name = name, !.doc_url = url, !.doc_file = f]
            a == Admit(handle, url, f)
            src == SourceOf(url, f)
        IN  IF a = "no_doc"
            THEN /\ req' = [req EXCEPT ![r] = Finish(rec, HTTPError(400, <<MsgNoDoc>>))]
                 /\ UNCHANGED <<wfPred, raced>>
            ELSE IF a = "no_client"
            THEN /\ req' = [req EXCEPT ![r] = Finish(rec, HTTPError(500, <<MsgNotInit>>))]
                 /\ UNCHANGED <<wfPred, raced>>
            ELSE IF src = "url"
            THEN /\ req' = [req EXCEPT ![r] = [rec EXCEPT !.pc = "query"]]
                 /\ EnterProvisioner(r)
            ELSE IF src = "file"
            THEN /\ req' = [req EXCEPT ![r] = [rec EXCEPT !.pc = "read"]]
                 /\ UNCHANGED <<wfPred, raced>>
            ELSE \* neither branch runs: content_id stays None (main.py:557-561)
                 /\ req' = [req EXCEPT ![r] = Finish(rec, HTTPError(500, <<MsgNoContentId>>))]
                 /\ UNCHANGED <<wfPred, raced>>
    /\ UNCHANGED <<lifespan, phase, handle, types_map, workflows>>

\* await doc_file.read(), MIME inference, and the call into ingestion up to
\* the provisioner's lookup (main.py:510-555, 182, 123).
ReadFile(r) ==
    /\ req[r].pc = "read"
    /\ LET f == req[r].doc_file
       IN  req' = [req EXCEPT ![r] =
                [@ EXCEPT !.pc = "query",
                          !.file_content = f.content,
                          !.mime = ResolveMime(f.content_type, f.filename, types_map),
                          !.calls = Append(@, Call("doc_file.read", f.filename, None))]]
    /\ EnterProvisioner(r)
    /\ UNCHANGED <<lifespan, phase, handle, types_map, workflows>>

\* client.query_workflows answers (main.py:123-130), or raises (155-168).
QueryWorkflows(r, d) ==
    /\ req[r].pc = "query"
    /\ LET rec == [req[r] EXCEPT !.calls = Append(@, Call("query_workflows", NoneText, None))]
           got == [rec EXCEPT !.results = workflows]
       IN  \/ \E e \in d.errors :
                req' = [req EXCEPT ![r] = Finish([rec EXCEPT !.exc = e], WorkflowExcept(e))]
           \/ req' = [req EXCEPT ![r] =
                        IF ProvisionerFound(got.results)
                        THEN AfterWorkflow(got, Head(got.results))
                        ELSE [got EXCEPT !.pc = "create"]]
    /\ UNCHANGED <<lifespan, phase, handle, types_map, workflows, wfPred, raced>>

\* client.create_workflow answers (main.py:150-154), or raises (155-168).
CreateWorkflow(r, d) ==
    /\ req[r].pc = "create"
    /\ LET rec == [req[r] EXCEPT !.calls = Append(@, Call("create_workflow", NoneText, None))]
           wid == WorkflowId(Len(workflows) + 1)
       IN  \/ /\ \E e \in d.errors :
                    req' = [req EXCEPT ![r] = Finish([rec EXCEPT !.exc = e], WorkflowExcept(e))]
              /\ UNCHANGED workflows
           \/ /\ workflows' = Append(workflows, wid)
              /\ req' = [req EXCEPT ![r] = AfterWorkflow(rec, wid)]
    /\ UNCHANGED <<lifespan, phase, handle, types_map, wfPred, raced>>

\* A variant of the ingestion step that calls the service a second time when
\* the first call raises.
IngestRetrying(r, d) ==
    /\ req[r].pc = "ingest"
    /\ LET byUrl == SourceOf(req[r].doc_url, req[r].doc_file) = "url"
           call == IF byUrl
                   THEN Call("ingest_uri", req[r].doc_url, None)
                   ELSE Call("ingest_encoded_file", req[r].doc_file.filename, req[r].mime)
           rec == [req[r] EXCEPT !.calls = Append(@, call)]
           first == \A i \in 1..Len(req[r].calls) : req[r].calls[i].op # call.op
       IN  \/ \E e \in d.errors :
                req' = [req EXCEPT ![r] =
                        IF first
                        THEN rec
                        ELSE Finish([rec EXCEPT !.exc = e], IngestExcept(e))]
           \/ \E id \in d.ingest_ids \cup {ContentId(r)} :
                LET got == [rec EXCEPT !.ingest_answer = id]
                IN  req' = [req EXCEPT ![r] =
                        IF IngestOutcome(id) = "ok"
                        THEN [got EXCEPT !.pc = "content", !.content_id = id]
                        ELSE Finish(got, IngestRewrap(500, MsgNoContentId))]
    /\ UNCHANGED <<lifespan, phase, handle, types_map, workflows, wfPred, raced>>

\* client.ingest_uri / client.ingest_encoded_file answers (main.py:186-223),
\* or raises (224-237).
Ingest(r, d) ==
    /\ req[r].pc = "ingest"
    /\ LET byUrl == SourceOf(req[r].doc_url, req[r].doc_file) = "url"
           call == IF byUrl
                   THEN Call("ingest_uri", req[r].doc_url, None)
                   ELSE Call("ingest_encoded_file", req[r].doc_file.filename, req[r].mime)
           rec == [req[r] EXCEPT !.calls = Append(@, call)]
       IN  \/ \E e \in d.errors :
                req' = [req EXCEPT ![r] = Finish([rec EXCEPT !.exc = e], IngestExcept(e))]
           \/ \E id \in d.ingest_ids \cup {ContentId(r)} :
                LET got == [rec EXCEPT !.ingest_answer = id]
                IN  req' = [req EXCEPT ![r] =
                        IF IngestOutcome(id) = "ok"
                        THEN [got EXCEPT !.pc = "content", !.content_id = id]
                        ELSE Finish(got, IngestRewrap(500, MsgNoContentId))]
    /\ UNCHANGED <<lifespan, phase, handle, types_map, workflows, wfPred, raced>>

\* client.get_content answers (main.py:246-256, 565-570), or raises (257-269).
GetContent(r, d) ==
    /\ req[r].pc = "content"
    /\ LET rec == [req[r] EXCEPT !.calls = Append(@, Call("get_content", req[r].content_id, None))]
       IN  \/ \E e \in d.errors :
                req' = [req EXCEPT ![r] = Finish([rec EXCEPT !.exc = e], ContentExcept(e))]
           \/ \E a \in d.contents :
                LET got == [rec EXCEPT !.content_answer = a]
                IN  req' = [req EXCEPT ![r] =
                        IF ContentOutcome(a) = "missing"
                        THEN Finish(got, ContentRewrap(500, MsgNoMarkdown))
                        ELSE IF ContentOutcome(a) = "blank"
                        THEN Finish(got, HTTPError(500, <<MsgBlank>>))
                        ELSE [got EXCEPT !.pc = "team", !.raw_doc_content = a.markdown]]
    /\ UNCHANGED <<lifespan, phase, handle, types_map, workflows, wfPred, raced>>

\* sdk_generation_team.arun answers, and the plausibility check
\* (main.py:597-613), or raises (630-637).
TeamRun(r, d) ==
    /\ req[r].pc = "team"
    /\ LET rec == [req[r] EXCEPT !.calls = Append(@, Call("team.arun", NoneText, None))]
       IN  \/ \E e \in d.model_errors :
                req' = [req EXCEPT ![r] = Finish([rec EXCEPT !.exc = e], Unexpected(e.msg))]
           \/ \E c \in d.team :
                req' = [req EXCEPT ![r] =
                        IF TeamOutcome(c) = "none"
                        THEN Finish([rec EXCEPT !.sdk_code = c], Unexpected(StrNoneSubscript))
                        ELSE IF TeamOutcome(c) = "invalid"
                        THEN Finish([rec EXCEPT !.sdk_code = c], HTTPError(500, <<MsgInvalidSdk>>))
                        ELSE [rec EXCEPT !.pc = "usage", !.sdk_code = c]]
    /\ UNCHANGED <<lifespan, phase, handle, types_map, workflows, wfPred, raced>>

\* usage_agent.arun answers or raises; the response is assembled
\* (main.py:616-626, 325-333).
UsageRun(r, d) ==
    /\ req[r].pc = "usage"
    /\ LET rec == [req[r] EXCEPT !.calls = Append(@, Call("usage_agent.arun", NoneText, None))]
       IN  \/ \E e \in d.model_errors :
                req' = [req EXCEPT ![r] =
                        Finish([rec EXCEPT !.exc = e],
                               Success(rec.sdk_code, UsageExample(TRUE, NoneText), rec.sdk_name))]
           \/ \E c \in d.usage :
                req' = [req EXCEPT ![r] =
                        Finish([rec EXCEPT !.usage_content = c],
                               Success(rec.sdk_code, UsageExample(FALSE, c), rec.sdk_name))]
    /\ UNCHANGED <<lifespan, phase, handle, types_map, workflows, wfPred, raced>>

\* ------------------------------------------------------------ specifications
InitCommon ==
    /\ lifespan \in {"on", "off"}
    /\ phase = "boot"
    /\ handle = None
    /\ workflows = <<>>
    /\ req = [r \in Req |-> IdleReq]
    /\ wfPred = [r \in Req |-> {}]
    /\ raced = {}

Init ==
    /\ InitCommon
    /\ types_map = TypesFull

Step(r, d) ==
    \/ Receive(r, d)
    \/ ReadFile(r)
    \/ QueryWorkflows(r, d)
    \/ CreateWorkflow(r, d)
    \/ Ingest(r, d)
    \/ GetContent(r, d)
    \/ TeamRun(r, d)
    \/ UsageRun(r, d)

\* The environment of the concurrent specification: one representative of
\* each kind of argument and answer.
Few ==
    [names |-> {"MyApiSdk"},
     sources |-> {<<NoneText, NoFile>>, <<DocUrl, NoFile>>,
                  <<NoneText, Upload(FileSpecMd, OctetStream, SomeBytes)>>},
     errors |-> {ErrHttp},
     model_errors |-> {ErrModel},
     ingest_ids |-> {},
     contents |-> {[details |-> TRUE, content |-> TRUE, markdown |-> MarkdownText],
                   [details |-> TRUE, content |-> TRUE, markdown |-> MarkdownBlank]},
     team |-> {TeamPlausible, TeamImplausible},
     usage |-> {UsageText}]

\* The environment of the single-request specification: every argument and
\* every answer of the services.
All ==
    [names |-> SdkNames,
     sources |-> DocUrls \X (AllUploads \cup {NoFile}),
     errors |-> ServiceErrors,
     model_errors |-> {ErrModel},
     ingest_ids |-> MissingIds,
     contents |-> ContentAnswers,
     team |-> TeamOutputs,
     usage |-> UsageOutputs]

Next ==
    \/ Startup
    \/ \E r \in Req : Step(r, Few)

\* Concurrent requests.
Spec == Init /\ [][Next]_vars

InitRequest ==
    /\ InitCommon
    /\ types_map \in TypeTables

NextRequest ==
    \/ Startup
    \/ Step(1, All)

\* One request, every input.
SpecRequest == InitRequest /\ [][NextRequest]_vars


\* ------------------------------------------------------------------- claims
Ops(r) == {req[r].calls[i].op : i \in 1..Len(req[r].calls)}
Done(r) == req[r].pc = "done"
Failed(r) == Done(r) /\ req[r].resp.status # 200
Succeeded(r) == Done(r) /\ req[r].resp.status = 200
MissingBoth(r) == ~Truthy(req[r].doc_url) /\ ~req[r].doc_file.present
BothGiven(r) == Truthy(req[r].doc_url) /\ req[r].doc_file.present

\* C1: a received request with neither a doc_url (absent or empty) nor a
\* doc_file has ended with the 400 validation error and has made no call at
\* all, whatever the client handle is.
C1_ValidationBeforeCalls ==
    \A r \in Req :
        (req[r].pc # "idle" /\ MissingBoth(r)) =>
            /\ Done(r)
            /\ req[r].resp = HTTPError(400, <<MsgNoDoc>>)
            /\ req[r].calls = <<>>

\* C1 witness: an empty doc_url without a file, rejected while the handle is
\* not usable.
C1_Witness ==
    \E r \in Req :
        /\ Done(r)
        /\ req[r].doc_url = <<>>
        /\ ~req[r].doc_file.present
        /\ handle # "client"

\* The usage-example run of request r raised, or answered without content.
UsageStageFailed(r) ==
    /\ "usage_agent.arun" \in Ops(r)
    /\ Done(r)
    /\ req[r].exc # NoExc \/ req[r].usage_content = NoneText

\* C2: when the usage-example stage fails, the request succeeds with the
\* placeholder as sdk_usage_example, the team's output as sdk_code and the
\* success message for sdk_name.
C2_UsageFailureIsolated ==
    \A r \in Req :
        UsageStageFailed(r) =>
            /\ req[r].resp.status = 200
            /\ req[r].resp.sdk_usage_example = UsagePlaceholder
            /\ req[r].resp.sdk_code = req[r].sdk_code
            /\ req[r].resp.message = <<MsgSuccess, req[r].sdk_name>>

\* C2 witness: the usage run raised in a request for PetStore.
C2_Witness ==
    \E r \in Req :
        /\ UsageStageFailed(r)
        /\ req[r].exc = ErrModel
        /\ req[r].sdk_name = "PetStore"

HasKeyword(code) ==
    \E kw \in Keywords :
        \E i \in 0..(Len(code) - Len(kw)) : SubSeq(code, i + 1, i + Len(kw)) = kw

\* C3: the sdk_code of a success response is non-empty and contains one of
\* the four keywords, and a request whose team output lacks them has been
\* rejected.
C3_SuccessHasKeyword ==
    \A r \in Req :
        /\ Succeeded(r) =>
            /\ req[r].resp.sdk_code # NoneText
            /\ req[r].resp.sdk_code # <<>>
            /\ HasKeyword(req[r].resp.sdk_code)
        /\ ("team.arun" \in Ops(r) /\ req[r].exc = NoExc
              /\ (req[r].sdk_code = NoneText \/ ~HasKeyword(req[r].sdk_code))) =>
            Failed(r)

\* C3 witness: a success whose code carries a keyword in the middle.
C3_Witness ==
    \E r \in Req :
        /\ Succeeded(r)
        /\ req[r].resp.sdk_code = <<"x", "=", "f", "e", "t", "c", "h", "(", ")">>

\* The pipeline stage of an external call, 0 for the local file read.
Stage(op) ==
    CASE op \in {"query_workflows", "create_workflow"} -> 1
      [] op \in {"ingest_uri", "ingest_encoded_file"} -> 2
      [] op = "get_content" -> 3
      [] op = "team.arun" -> 4
      [] op = "usage_agent.arun" -> 5
      [] OTHER -> 0

External(r) == SelectSeq(req[r].calls, LAMBDA c : Stage(c.op) > 0)

\* C4: the external calls of a request follow the order provisioning,
\* ingestion, retrieval, team run, usage run, each stage at most once after
\* the one before it, and a stage is entered only with the result of every
\* earlier one: a workflow id, a content id, non-blank markdown, plausible code.
C4_StagesInOrder ==
    \A r \in Req :
        LET ext == External(r)
        IN  /\ ext # <<>> => ext[1].op = "query_workflows"
            /\ \A i \in 1..(Len(ext) - 1) :
                  \/ Stage(ext[i + 1].op) = Stage(ext[i].op) + 1
                  \/ ext[i].op = "query_workflows" /\ ext[i + 1].op = "create_workflow"
            /\ (\E i \in 1..Len(ext) : Stage(ext[i].op) >= 2) => Truthy(req[r].workflow_id)
            /\ (\E i \in 1..Len(ext) : Stage(ext[i].op) >= 3) => Truthy(req[r].content_id)
            /\ (\E i \in 1..Len(ext) : Stage(ext[i].op) >= 4) =>
                  /\ Truthy(req[r].raw_doc_content)
                  /\ \E k \in 1..Len(req[r].raw_doc_content) :
                        req[r].raw_doc_content[k] \notin WhiteChars
            /\ (\E i \in 1..Len(ext) : Stage(ext[i].op) >= 5) =>
                  /\ Truthy(req[r].sdk_code)
                  /\ HasKeyword(req[r].sdk_code)

\* C4 witness: a request that went through all five stages, creating the
\* workflow on the way.
C4_Witness ==
    \E r \in Req :
        /\ Done(r)
        /\ Len(External(r)) = 6
        /\ "create_workflow" \in Ops(r)


Created(r) == "create_workflow" \in Ops(r)
Provisioned(r) == Truthy(req[r].workflow_id)

\* C5: when a provisioner call starts after another one has returned, it
\* issues no create_workflow request, and it returns the same workflow id as
\* the earlier call, provided no third call ran concurrently with the earlier one.
C5_ProvisionerIdempotent ==
    \A later \in Req : \A earlier \in wfPred[later] :
        /\ ~Created(later)
        /\ req[later].pc # "create"
        /\ (Provisioned(later) /\ earlier \notin raced) =>
              req[later].workflow_id = req[earlier].workflow_id

\* C5 witness: the first call created the workflow on its own, and the call
\* after it has returned.
C5_Witness ==
    \E later \in Req : \E earlier \in wfPred[later] :
        /\ Provisioned(later)
        /\ Created(earlier)
        /\ earlier \notin raced

\* C6 as stated: the service never holds more than one workflow of the name,
\* whatever the interleaving.
C6_CreatedAtMostOnce == Len(workflows) <= 1

\* C6 amended: each request issues at most one create_workflow request, and
\* only after its own lookup listed no workflow; the workflows the service
\* holds are no more than the requests that issued one; and while no two
\* provisioner calls have overlapped there is at most one workflow.
C6_CreatedOncePerLookup ==
    /\ \A r \in Req :
          /\ Cardinality({i \in 1..Len(req[r].calls) :
                              req[r].calls[i].op = "create_workflow"}) <= 1
          /\ (Created(r) \/ req[r].pc = "create") => Len(req[r].results) = 0
    /\ Len(workflows) <= Cardinality({r \in Req : Created(r)})
    /\ raced = {} => Len(workflows) <= 1

\* C6 witness: two requests have been provisioned one after the other and
\* the service holds one workflow.
C6_Witness ==
    /\ raced = {}
    /\ Len(workflows) = 1
    /\ \E r1 \in Req : \E r2 \in wfPred[r1] : Provisioned(r1) /\ Created(r2)

\* C7 as stated: all failure responses carry one and the same status.
C7_OneFailureStatus ==
    \A r1, r2 \in Req :
        (Failed(r1) /\ Failed(r2)) => req[r1].resp.status = req[r2].resp.status

\* C7 amended: a failure response carries status 400 when neither document
\* source was supplied and status 500 in every other case.
C7_FailureStatuses ==
    \A r \in Req :
        Failed(r) =>
            /\ MissingBoth(r) => req[r].resp.status = 400 /\ req[r].resp.detail = <<MsgNoDoc>>
            /\ ~MissingBoth(r) => req[r].resp.status = 500 /\ req[r].resp.detail # <<MsgNoDoc>>

\* C7 witness: a validation failure beside a failure of another kind.
C7_Witness ==
    \E r1, r2 \in Req :
        /\ Failed(r1) /\ MissingBoth(r1)
        /\ Failed(r2) /\ "team.arun" \in Ops(r2)

\* The texts an upstream exception carries: its error list, its message.
UpstreamStrings(e) == IF e.has_errors THEN {e.errors, e.msg} ELSE {e.msg}

\* C8: when the ingestion service raised during provisioning, ingestion or
\* retrieval, the failure detail contains a text of that exception.
C8_UpstreamDetail ==
    \A r \in Req :
        (Done(r) /\ req[r].exc \in ServiceErrors) =>
            /\ Failed(r)
            /\ \E i \in 1..Len(req[r].resp.detail) :
                  req[r].resp.detail[i] \in UpstreamStrings(req[r].exc)

\* The extension table of the claim, on the lower-cased name.
ClaimTable ==
    << <<ExtMd, "text/markdown">>, <<ExtTxt, "text/plain">>, <<ExtPdf, "application/pdf">>,
       <<ExtDocx, MimeDocx>>, <<ExtPptx, MimePptx>> >>

HasSuffix(name, ext) ==
    Len(name) >= Len(ext) /\ SubSeq(Lower(name), Len(name) - Len(ext) + 1, Len(name)) = ext

\* The fallback chain as the claim words it.
ClaimMime(f) ==
    IF f.content_type \notin {None, "", "application/octet-stream"}
    THEN f.content_type
    ELSE IF GuessType(f.filename, types_map) # None
    THEN GuessType(f.filename, types_map)
    ELSE IF \E i \in 1..Len(ClaimTable) : HasSuffix(f.filename, ClaimTable[i][1])
    THEN ClaimTable[CHOOSE i \in 1..Len(ClaimTable) :
                        /\ HasSuffix(f.filename, ClaimTable[i][1])
                        /\ \A k \in 1..(i - 1) : ~HasSuffix(f.filename, ClaimTable[k][1])][2]
    ELSE "application/octet-stream"

\* C9: once the upload is read, the resolved MIME type is the one the
\* fallback chain gives; spec.md and spec.pdf declared as generic binary
\* resolve to text/markdown and application/pdf; and an ingest_encoded_file
\* call carries the file's name and the resolved type.
C9_MimeChain ==
    \A r \in Req :
        LET f == req[r].doc_file
        IN  "doc_file.read" \in Ops(r) =>
              /\ req[r].mime = ClaimMime(f)
              /\ (f.filename = FileSpecMd /\ f.content_type = OctetStream) =>
                    req[r].mime = "text/markdown"
              /\ (f.filename = FileSpecPdf /\ f.content_type = OctetStream) =>
                    req[r].mime = "application/pdf"
              /\ \A i \in 1..Len(req[r].calls) :
                    req[r].calls[i].op = "ingest_encoded_file" =>
                        /\ req[r].calls[i].mime = ClaimMime(f)
                        /\ req[r].calls[i].name = f.filename

\* C9 witness: an upper-case markdown name without a declared type, on an
\* interpreter that knows no markdown extension, submitted as text/markdown.
C9_Witness ==
    \E r \in Req : \E i \in 1..Len(req[r].calls) :
        /\ req[r].calls[i].op = "ingest_encoded_file"
        /\ req[r].calls[i].mime = "text/markdown"
        /\ req[r].doc_file.filename = FileUpperMd
        /\ req[r].doc_file.content_type = None
        /\ types_map = TypesBare

IngestCalls(r) ==
    {i \in 1..Len(req[r].calls) : req[r].calls[i].op \in {"ingest_uri", "ingest_encoded_file"}}

\* C10: a request makes at most one ingestion call; with a doc_url it is
\* ingest_uri of that URL and the upload, if any, is neither read nor
\* submitted; without one it is the upload that is submitted; and a request
\* with neither source is rejected.
C10_OneSource ==
    \A r \in Req :
        /\ Cardinality(IngestCalls(r)) <= 1
        /\ Truthy(req[r].doc_url) =>
              /\ "doc_file.read" \notin Ops(r)
              /\ "ingest_encoded_file" \notin Ops(r)
              /\ \A i \in IngestCalls(r) : req[r].calls[i].name = req[r].doc_url
        /\ ~Truthy(req[r].doc_url) => "ingest_uri" \notin Ops(r)
        /\ (req[r].pc # "idle" /\ MissingBoth(r)) => Failed(r) /\ req[r].calls = <<>>

\* C10 witness: both sources supplied, and the URL was ingested.
C10_Witness ==
    \E r \in Req :
        /\ BothGiven(r)
        /\ "ingest_uri" \in Ops(r)
        /\ Done(r)


\* The handle is unusable: never bound, or bound without an inner client.
HandleUnusable == handle = None \/ handle = "no_client"

\* C11: the client handle changes only in the startup step, which runs
\* before any request is received; and while the handle is unusable every
\* received request has failed without any call to the ingestion service or
\* to a model.
C11_HandleWriteOnce ==
    /\ [][handle' # handle =>
            /\ phase = "boot" /\ phase' = "serving"
            /\ \A r \in Req : req[r].pc = "idle" /\ req'[r].pc = "idle"]_vars
    /\ [](HandleUnusable =>
            \A r \in Req : req[r].pc # "idle" => Failed(r) /\ req[r].calls = <<>>)

\* C11 witness: a handle without inner client, and a request with a doc_url
\* refused for it.
C11_Witness ==
    /\ handle = "no_client"
    /\ \E r \in Req :
          /\ Failed(r)
          /\ Truthy(req[r].doc_url)
          /\ req[r].resp = HTTPError(500, <<MsgNotInit>>)


\* The team run of request r failed: it raised or returned no content (both
\* leave no code), or it returned code without any keyword.
TeamStageFailed(r) ==
    /\ "team.arun" \in Ops(r)
    /\ ~Truthy(req[r].sdk_code) \/ ~HasKeyword(req[r].sdk_code)

\* C12: when the team run raises, returns no content or returns code that
\* fails the keyword test, the request ends in a failure response that
\* carries no code, and the usage-example stage is not invoked.
C12_PipelineFailureAborts ==
    \A r \in Req :
        TeamStageFailed(r) =>
            /\ Failed(r)
            /\ req[r].resp.sdk_code = NoneText
            /\ req[r].resp.sdk_usage_example = NoneText
            /\ "usage_agent.arun" \notin Ops(r)

\* C12 witness: the team run raised, and the request failed after it.
C12_Witness ==
    \E r \in Req :
        /\ TeamStageFailed(r)
        /\ req[r].exc = ErrModel
        /\ Failed(r)


\* get_content answered request r (it did not raise).
ContentAnswered(r) ==
    /\ "get_content" \in Ops(r)
    /\ req[r].exc \notin ServiceErrors

\* The answer holds no readable text: no details, no content, markdown that
\* is None, empty or whitespace only.
AnswerUnreadable(a) ==
    \/ ~a.details
    \/ ~a.content
    \/ a.markdown = NoneText
    \/ \A k \in 1..Len(a.markdown) : a.markdown[k] \in WhiteChars

Count(r, ops) == Cardinality({i \in 1..Len(req[r].calls) : req[r].calls[i].op \in ops})

\* C13: when retrieval answers without readable text, the request ends in a
\* status-500 failure, get_content was called once, and neither the team
\* nor the usage agent is invoked.
C13_UnreadableContentFails ==
    \A r \in Req :
        (ContentAnswered(r) /\ AnswerUnreadable(req[r].content_answer)) =>
            /\ Failed(r)
            /\ req[r].resp.status = 500
            /\ Count(r, {"get_content"}) = 1
            /\ "team.arun" \notin Ops(r)
            /\ "usage_agent.arun" \notin Ops(r)
            /\ req[r].raw_doc_content = NoneText

\* C13 witness: markdown of whitespace only, and the failure it leads to.
C13_Witness ==
    \E r \in Req :
        /\ ContentAnswered(r)
        /\ req[r].content_answer.markdown = MarkdownBlank
        /\ Failed(r)


\* The team returned (it did not raise) and its output fails the check of
\* main.py:602-604: None, empty, or without any keyword.
PlausibilityFailed(r) ==
    /\ TeamStageFailed(r)
    /\ req[r].exc = NoExc

\* C14: whenever the team's output fails the plausibility check, be it
\* None, empty or without a keyword, the request fails with the dedicated
\* "SDK generation failed or returned invalid TypeScript code" detail.
C14_DedicatedDetail ==
    \A r \in Req :
        PlausibilityFailed(r) =>
            /\ Failed(r)
            /\ req[r].resp.detail = <<MsgInvalidSdk>>


\* The external operations, ingestion counted as one whichever call it uses.
ExternalOps ==
    { {"query_workflows"}, {"create_workflow"},
      {"ingest_uri", "ingest_encoded_file"},
      {"get_content"}, {"team.arun"}, {"usage_agent.arun"} }

\* C15: within one request each external operation is invoked at most once,
\* a call that raised has ended the request, and unless the call was the
\* usage-example run the request has ended in a failure.
C15_NoRetry ==
    \A r \in Req :
        /\ \A ops \in ExternalOps : Count(r, ops) <= 1
        /\ req[r].exc # NoExc =>
              /\ Done(r)
              /\ "usage_agent.arun" \notin Ops(r) => Failed(r)

\* C15 witness: an ingestion call raised; it was the only one, and the
\* request has failed.
C15_Witness ==
    \E r \in Req :
        /\ req[r].exc \in ServiceErrors
        /\ Count(r, {"ingest_uri", "ingest_encoded_file"}) = 1
        /\ "get_content" \notin Ops(r)
        /\ Failed(r)


\* An ingestion call of request r completed: it answered and did not raise.
IngestAnswered(r) ==
    /\ IngestCalls(r) # {}
    /\ ~(req[r].exc \in ServiceErrors /\ "get_content" \notin Ops(r))

\* C16: when an ingestion call completes without a content id (None or
\* empty), the adapter does not return: the request keeps no content id,
\* ends in a failure response and never calls get_content.  Hence every
\* get_content call is made with a non-empty id.
C16_NoIdFails ==
    \A r \in Req :
        /\ (IngestAnswered(r) /\ req[r].ingest_answer \in MissingIds) =>
              /\ Failed(r)
              /\ req[r].content_id = NoneText
              /\ "get_content" \notin Ops(r)
        /\ "get_content" \in Ops(r) =>
              /\ Truthy(req[r].content_id)
              /\ req[r].content_id = req[r].ingest_answer

\* C16 witness: the service answered with an empty id and the request failed
\* with the adapter's message.
C16_Witness ==
    \E r \in Req :
        /\ IngestAnswered(r)
        /\ req[r].ingest_answer = <<>>
        /\ Failed(r)
        /\ req[r].resp = IngestRewrap(500, MsgNoContentId)


\* Request r came without a doc_url and with an uploaded file of zero bytes,
\* to a server whose client handle is bound.
ZeroByteUpload(r) ==
    /\ req[r].pc # "idle"
    /\ handle = "client"
    /\ ~Truthy(req[r].doc_url)
    /\ req[r].doc_file.present
    /\ req[r].doc_file.content = <<>>

\* C17: a request with no doc_url and a zero-byte upload is not rejected by
\* validation: the file is read and the workflow looked up, no ingestion call
\* is ever made, and the request ends with status 500; once the workflow is
\* provisioned the detail is "Backend error during ingestion: " followed by
\* the text of the adapter's own status-400 rejection.
C17_ZeroByteUpload ==
    \A r \in Req :
        ZeroByteUpload(r) =>
            /\ IngestCalls(r) = {}
            /\ "get_content" \notin Ops(r)
            /\ Done(r) =>
                  /\ {"doc_file.read", "query_workflows"} \subseteq Ops(r)
                  /\ req[r].resp.status = 500
                  /\ req[r].workflow_id # NoneText =>
                        req[r].resp.detail = <<PreIngestOther, "400: ", MsgNoSource>>

\* C17 witness: such a request, its workflow newly created, answered with
\* the rewrapped rejection.
C17_Witness ==
    \E r \in Req :
        /\ ZeroByteUpload(r)
        /\ Done(r)
        /\ "create_workflow" \in Ops(r)
        /\ req[r].workflow_id # NoneText
        /\ req[r].resp.status = 500
        /\ req[r].resp.detail[1] = PreIngestOther

====
